---- MODULE Spec2Model ----
(***************************************************************************)
(* A model of the PDF question-answering command line program:            *)
(* src/src/pdf_processor.py (fingerprint, text extraction, chunking),      *)
(* src/src/main_cli.py (index cache, interactive query loop, run) and the  *)
(* query loop of src/main.py.                                              *)
(*                                                                         *)
(* A Python str is a sequence of one-character strings; Python None is the *)
(* value None below; a Python list is a sequence.                          *)
(***************************************************************************)
EXTENDS Integers, Sequences, FiniteSets, TLC

VARIABLES
    pc,             \* where the process is: "stopped", "path_prompt", "index",
                    \* "query_prompt", "sources_prompt"
    program,        \* which script runs: "main_cli" (src/main_cli.py) or "main" (main.py)
    exit_status,    \* <<>> while running, <<n>> once the process has ended with status n
    pdf_file_path,  \* run's pdf_file_path
    index,          \* run's index
    query_engine,   \* query_index_interactive's query_engine
    disk,           \* the cache directory: path of an entry -> what it holds
    gobi,           \* the last call of get_or_build_index: inputs, stages, result
    built,          \* fingerprint -> the index get_or_build_index last built and
                    \* persisted under it
    loop,           \* the query loop of this process: what happened last
    fn_pc,      \* harness of the pure functions: "ready" or the function last called
    fn_in,      \* the argument of the last call
    fn_out,     \* the value the last call returned
    fn_log,     \* the message the last call logged
    fn_prev,    \* the last failed extraction before this call: its kind and value
    src_config  \* src/config.py as the process imports it: CHUNK_SIZE and CHUNK_OVERLAP

fn_vars == <<fn_pc, fn_in, fn_out, fn_log, fn_prev>>

run_vars == <<pc, program, exit_status, pdf_file_path, index, query_engine, disk, gobi,
              built, loop>>

vars == <<run_vars, fn_vars, src_config>>

-----------------------------------------------------------------------------
(* Bounds of the model. *)

MaxPages == 3       \* pages of a generated document
MaxTextLen == 8     \* characters of a generated chunker input

-----------------------------------------------------------------------------
(* Python values. *)

None == <<"None">>

NL == "\n"
SP == " "
Whitespace == {SP, NL}

\* `not v` for v a str, a list or None
Falsy(v) == v = None \/ v = <<>>

RECURSIVE lstrip(_)
lstrip(s) ==
    IF s = <<>> THEN <<>>
    ELSE IF Head(s) \in Whitespace THEN lstrip(Tail(s)) ELSE s

RECURSIVE rstrip(_)
rstrip(s) ==
    IF s = <<>> THEN <<>>
    ELSE IF s[Len(s)] \in Whitespace THEN rstrip(SubSeq(s, 1, Len(s) - 1)) ELSE s

\* str.strip()
strip(s) == rstrip(lstrip(s))

-----------------------------------------------------------------------------
(* Files.  A file is what a path names: whether it exists, whether it can  *)
(* be opened for reading, and its content.  The content of a PDF is what   *)
(* PyPDF2 makes of its bytes: whether PdfReader parses it, whether it is   *)
(* encrypted, and per page what page.extract_text() does.                  *)

Raises == <<"raises">>                  \* page.extract_text() raises
PageTexts == {<<>>, <<SP>>, <<"a">>, <<"b">>}
PageOutcomes == {Raises} \cup PageTexts

RECURSIVE SeqsUpTo(_, _)
SeqsUpTo(S, n) ==
    IF n = 0 THEN {<<>>}
    ELSE LET shorter == SeqsUpTo(S, n - 1)
         IN  shorter \cup {Append(s, x) : s \in {t \in shorter : Len(t) = n - 1}, x \in S}

NoPages == <<>>

Contents ==
    {[parsable |-> FALSE, encrypted |-> e, pages |-> NoPages] : e \in BOOLEAN}
    \cup {[parsable |-> TRUE, encrypted |-> TRUE, pages |-> p] : p \in SeqsUpTo(PageOutcomes, 1)}
    \cup {[parsable |-> TRUE, encrypted |-> FALSE, pages |-> p] : p \in SeqsUpTo(PageOutcomes, MaxPages)}

Missing == [exists |-> FALSE, readable |-> FALSE,
            content |-> [parsable |-> FALSE, encrypted |-> FALSE, pages |-> NoPages]]

Unopenable == [exists |-> TRUE, readable |-> FALSE,
               content |-> [parsable |-> FALSE, encrypted |-> FALSE, pages |-> NoPages]]

Files ==
    {Missing, Unopenable}
    \cup {[exists |-> TRUE, readable |-> TRUE, content |-> c] : c \in Contents}

\* what a document is, whatever the program makes of it
yields_no_text(page) == page = Raises \/ strip(page) = <<>>

Kind(file) ==
    IF ~file.exists THEN "NotFound"
    ELSE IF ~file.readable THEN "Unreadable"
    ELSE IF file.content.encrypted THEN "Encrypted"
    ELSE IF ~file.content.parsable THEN "Unreadable"
    ELSE IF Len(file.content.pages) = 0 THEN "Empty"
    ELSE IF \A i \in 1..Len(file.content.pages) : yields_no_text(file.content.pages[i])
         THEN "NoExtractableText"
    ELSE "Ok"

FailureKinds == {"NotFound", "Unreadable", "Encrypted", "Empty", "NoExtractableText"}

\* the inputs of the chunker harness
TextChars == {"a", SP, NL}
ChunkInputs == {None} \cup SeqsUpTo(TextChars, MaxTextLen)

-----------------------------------------------------------------------------
(* src/src/pdf_processor.py *)

\* the bytes of a file with this content, as far as the model tells files apart
byte_of(c) ==
    CASE c = "a" -> 1 [] c = "b" -> 2 [] c = SP -> 3 [] c = NL -> 4 [] OTHER -> 5

page_bytes(page) ==
    IF page = Raises THEN <<6>> ELSE [i \in 1..Len(page) |-> byte_of(page[i])] \o <<7>>

RECURSIVE pages_bytes(_, _)
pages_bytes(pages, i) ==
    IF i > Len(pages) THEN <<>> ELSE page_bytes(pages[i]) \o pages_bytes(pages, i + 1)

content_bytes(content) ==
    <<8 + (IF content.parsable THEN 1 ELSE 0) + (IF content.encrypted THEN 2 ELSE 0)>>
    \o pages_bytes(content.pages, 1)

\* hashlib.md5: a digest of fixed width (scaled: MD5 has 128 bits, the model 6)
DigestModulus == 64

\* hasher.update over the bytes read, h being the state of the hasher
RECURSIVE update(_, _)
update(h, bytes) ==
    IF bytes = <<>> THEN h
    ELSE update((h * 37 + Head(bytes) + 11) % DigestModulus, Tail(bytes))

\* a digest made of the length of the file alone
hexdigest_of_length(content) == <<"md5", Len(content_bytes(content)) % DigestModulus>>

\* hasher.hexdigest() after the loop of lines 20-22: a function of the bytes alone
hexdigest(content) == <<"md5", update(0, content_bytes(content))>>

\* get_pdf_id returning the digest of what was read before open() or read() raised
get_pdf_id_of_nothing(file) ==
    IF ~file.exists \/ ~file.readable
    THEN <<"md5", update(0, <<>>)>>
    ELSE hexdigest(file.content)

get_pdf_id(file) ==
    IF ~file.exists \/ ~file.readable
    THEN None                           \* open() raised IOError
    ELSE hexdigest(file.content)

\* extract_pages with the page's try/except left out: a raising page ends the loop
RECURSIVE extract_pages_abort(_, _, _)
extract_pages_abort(pages, i, text) ==
    IF i > Len(pages) THEN text
    ELSE LET page_text == pages[i]
         IN  IF page_text = Raises
             THEN text
             ELSE IF ~Falsy(page_text)
                  THEN extract_pages_abort(pages, i + 1, text \o page_text \o <<NL>>)
                  ELSE extract_pages_abort(pages, i + 1, text)

\* the page loop of extract_text_from_pdf: pages i.. appended to text
RECURSIVE extract_pages(_, _, _)
extract_pages(pages, i, text) ==
    IF i > Len(pages) THEN text
    ELSE LET page_text == pages[i]
         IN  IF page_text = Raises
             THEN extract_pages(pages, i + 1, text)             \* logged, continue
             ELSE IF ~Falsy(page_text)
                  THEN extract_pages(pages, i + 1, text \o page_text \o <<NL>>)
                  ELSE extract_pages(pages, i + 1, text)

\* extract_outcome testing `not text` where the code tests `not text.strip()`
extract_outcome_nostrip(file) ==
    IF ~file.exists \/ ~file.readable \/ ~file.content.parsable
       \/ Len(file.content.pages) = 0 \/ file.content.encrypted
    THEN [value |-> None, log |-> "error or warning"]
    ELSE LET text == extract_pages(file.content.pages, 1, <<>>)
         IN  IF text = <<>>
             THEN [value |-> None, log |-> "warning: no text content"]
             ELSE [value |-> text, log |-> "info: extracted"]

\* what extract_text_from_pdf returns and which message it logs
extract_outcome(file) ==
    IF ~file.exists
    THEN [value |-> None, log |-> "error: file not found"]
    ELSE IF ~file.readable \/ ~file.content.parsable
    THEN [value |-> None, log |-> "error: failed to read or process"]
    ELSE IF Len(file.content.pages) = 0
    THEN [value |-> None, log |-> "warning: no pages"]
    ELSE IF file.content.encrypted
    THEN [value |-> None, log |-> "warning: encrypted"]
    ELSE LET text == extract_pages(file.content.pages, 1, <<>>)
         IN  IF strip(text) = <<>>
             THEN [value |-> None, log |-> "warning: no text content"]
             ELSE [value |-> text, log |-> "info: extracted"]

extract_text_from_pdf(file) == extract_outcome(file).value

\* Text chunking (scaled: the program's values are 512 and 50 tokens)
CHUNK_SIZE == 4
CHUNK_OVERLAP == 1

\* src/config.py as shipped
ShippedConfig == [chunk_size |-> CHUNK_SIZE, chunk_overlap |-> CHUNK_OVERLAP]

\* src/config.py as shipped or with CHUNK_OVERLAP edited to CHUNK_SIZE or above
ChunkConfigs ==
    {ShippedConfig,
     [chunk_size |-> CHUNK_SIZE, chunk_overlap |-> CHUNK_SIZE],
     [chunk_size |-> CHUNK_SIZE, chunk_overlap |-> CHUNK_SIZE + 1]}

\* the splitter's tokenizer, at one token per character
token_size(text) == Len(text)

RECURSIVE join(_)
join(texts) == IF texts = <<>> THEN <<>> ELSE Head(texts) \o join(Tail(texts))

\* str.split(sep), cur being the part read so far
RECURSIVE str_split(_, _, _)
str_split(text, sep, cur) ==
    IF Len(text) < Len(sep) THEN <<cur \o text>>
    ELSE IF SubSeq(text, 1, Len(sep)) = sep
         THEN <<cur>> \o str_split(SubSeq(text, Len(sep) + 1, Len(text)), sep, <<>>)
         ELSE str_split(Tail(text), sep, Append(cur, Head(text)))

\* split_by_sep(sep): text.split(sep), the separator kept in front of every
\* part but the first, empty parts dropped
split_by_sep(text, sep) ==
    LET parts == str_split(text, sep, <<>>)
        result == [i \in 1..Len(parts) |-> IF i > 1 THEN sep \o parts[i] ELSE parts[i]]
    IN  IF result[1] = <<>> THEN Tail(result) ELSE result

\* SentenceSplitter's default paragraph_separator
PARAGRAPH_SEPARATOR == <<NL, NL, NL>>

\* split_by_char(): list(text)
split_by_char(text) == [i \in 1..Len(text) |-> <<text[i]>>]

\* SentenceSplitter._get_splits_by_fns on text with no sentence or clause
\* punctuation: the paragraph separator splits it, or else (the sentence and
\* regex splits each giving back one piece) the word separator, or else characters
get_splits_by_fns(text) ==
    LET paragraphs == split_by_sep(text, PARAGRAPH_SEPARATOR)
        words == split_by_sep(text, <<SP>>)
    IN  IF Len(paragraphs) > 1 THEN paragraphs
        ELSE IF Len(words) > 1 THEN words
        ELSE split_by_char(text)

\* SentenceSplitter._split: pieces of at most chunk_size tokens
RECURSIVE split(_, _)
split(text, chunk_size) ==
    IF token_size(text) <= chunk_size
    THEN <<[text |-> text, is_sentence |-> TRUE]>>
    ELSE LET pieces == get_splits_by_fns(text)
             sub[i \in 1..Len(pieces)] ==
                 IF token_size(pieces[i]) <= chunk_size
                 THEN <<[text |-> pieces[i], is_sentence |-> FALSE]>>
                 ELSE split(pieces[i], chunk_size)
             RECURSIVE flat(_)
             flat(i) == IF i > Len(pieces) THEN <<>> ELSE sub[i] \o flat(i + 1)
         IN  flat(1)

\* overlap_tail measuring the overlap against the chunk size
RECURSIVE overlap_tail_by_size(_, _, _, _)
overlap_tail_by_size(last_chunk, last_index, cur_chunk, chunk_overlap) ==
    IF last_index >= 1
       /\ token_size(join(cur_chunk)) + token_size(last_chunk[last_index]) <= CHUNK_SIZE
    THEN overlap_tail_by_size(last_chunk, last_index - 1,
                              <<last_chunk[last_index]>> \o cur_chunk, chunk_overlap)
    ELSE cur_chunk

\* close_chunk's overlap: the splits at the end of the closed chunk that fit
\* within chunk_overlap tokens start the next chunk
RECURSIVE overlap_tail(_, _, _, _)
overlap_tail(last_chunk, last_index, cur_chunk, chunk_overlap) ==
    IF last_index >= 1
       /\ token_size(join(cur_chunk)) + token_size(last_chunk[last_index]) <= chunk_overlap
    THEN overlap_tail(last_chunk, last_index - 1,
                      <<last_chunk[last_index]>> \o cur_chunk, chunk_overlap)
    ELSE cur_chunk

close_chunk(st, chunk_overlap) ==
    [st EXCEPT !.chunks = Append(st.chunks, join(st.cur_chunk)),
               !.cur_chunk = overlap_tail(st.cur_chunk, Len(st.cur_chunk), <<>>, chunk_overlap),
               !.new_chunk = TRUE]

\* _merge, a new chunk whose overlap leaves no room for the split: the overlap
\* is removed from its front until the split fits
RECURSIVE remove_overlap(_, _, _)
remove_overlap(cur_chunk, size, chunk_size) ==
    IF cur_chunk # <<>> /\ token_size(join(cur_chunk)) + size > chunk_size
    THEN remove_overlap(Tail(cur_chunk), size, chunk_size)
    ELSE cur_chunk

\* SentenceSplitter._merge: the chunk texts, or None when it raises
RECURSIVE merge(_, _, _, _)
merge(splits, st, chunk_size, chunk_overlap) ==
    IF st.split_idx > Len(splits)
    THEN IF ~st.new_chunk THEN Append(st.chunks, join(st.cur_chunk)) ELSE st.chunks
    ELSE LET cur_split == splits[st.split_idx]
             size == token_size(cur_split.text)
             cur_chunk_len == token_size(join(st.cur_chunk))
         IN  IF size > chunk_size
             THEN None                  \* "Single token exceeded chunk size"
             ELSE IF cur_chunk_len + size > chunk_size /\ ~st.new_chunk
             THEN merge(splits, close_chunk(st, chunk_overlap), chunk_size, chunk_overlap)
             ELSE LET kept == IF st.new_chunk
                              THEN remove_overlap(st.cur_chunk, size, chunk_size)
                              ELSE st.cur_chunk
                  IN  merge(splits,
                            [st EXCEPT !.cur_chunk = Append(kept, cur_split.text),
                                       !.split_idx = st.split_idx + 1,
                                       !.new_chunk = FALSE],
                            chunk_size, chunk_overlap)

\* postprocess_chunks dropping the blank chunks but keeping the others unstripped
RECURSIVE postprocess_chunks_unstripped(_)
postprocess_chunks_unstripped(chunks) ==
    IF chunks = <<>> THEN <<>>
    ELSE IF strip(Head(chunks)) = <<>>
         THEN postprocess_chunks_unstripped(Tail(chunks))
         ELSE <<Head(chunks)>> \o postprocess_chunks_unstripped(Tail(chunks))

\* SentenceSplitter._postprocess_chunks: chunks stripped, blank chunks dropped
RECURSIVE postprocess_chunks(_)
postprocess_chunks(chunks) ==
    IF chunks = <<>> THEN <<>>
    ELSE LET stripped_chunk == strip(Head(chunks))
         IN  IF stripped_chunk = <<>>
             THEN postprocess_chunks(Tail(chunks))
             ELSE <<stripped_chunk>> \o postprocess_chunks(Tail(chunks))

\* SentenceSplitter.split_text after _merge: the merged chunks postprocessed,
\* None when _merge raised
postprocess_merged(merged) == IF merged = None THEN None ELSE postprocess_chunks(merged)

\* SentenceSplitter(chunk_size, chunk_overlap).get_nodes_from_documents of one
\* document without metadata: the node contents in order, None when it raises
get_nodes_from_documents(text, chunk_size, chunk_overlap) ==
    IF chunk_overlap > chunk_size
    THEN None                           \* the constructor raises ValueError
    ELSE postprocess_merged(merge(split(text, chunk_size),
                                  [split_idx |-> 1, chunks |-> <<>>, cur_chunk |-> <<>>,
                                   new_chunk |-> TRUE],
                                  chunk_size, chunk_overlap))

\* the except clause of chunk_text: an empty list when the splitter raised
nodes_or_empty(nodes) == IF nodes = None THEN <<>> ELSE nodes

\* chunk_text; splitter_raises: an exception inside the splitter (tokenizer,
\* memory), which the except clause turns into an empty list
chunk_text(text, splitter_raises) ==
    IF Falsy(text) THEN <<>>
    ELSE IF splitter_raises THEN <<>>
    ELSE nodes_or_empty(get_nodes_from_documents(text, src_config.chunk_size,
                                                 src_config.chunk_overlap))

-----------------------------------------------------------------------------
(* The files of the machine the program runs on.  A path is <<stem, extension>>. *)

TwoPages == [parsable |-> TRUE, encrypted |-> FALSE, pages |-> << <<"a">>, <<"b">> >>]
LongText == [parsable |-> TRUE, encrypted |-> FALSE,
             pages |-> << <<"a", "b">>, Raises, <<"b", SP, "a">> >>]
Locked == [parsable |-> TRUE, encrypted |-> TRUE, pages |-> << <<"a">> >>]
Scanned == [parsable |-> TRUE, encrypted |-> FALSE, pages |-> << <<>>, Raises, <<SP>> >>]
ZeroPages == [parsable |-> TRUE, encrypted |-> FALSE, pages |-> NoPages]
Corrupt == [parsable |-> FALSE, encrypted |-> FALSE, pages |-> NoPages]
Notes == [parsable |-> FALSE, encrypted |-> FALSE, pages |-> << <<"b">> >>]

Paths == {<<"good", ".pdf">>, <<"copy", ".PDF">>, <<"long", ".pdf">>, <<"enc", ".pdf">>,
          <<"scan", ".pdf">>, <<"zero", ".pdf">>, <<"bad", ".pdf">>, <<"denied", ".pdf">>,
          <<"gone", ".pdf">>, <<"notes", ".txt">>}

PdfFile(content) == [exists |-> TRUE, readable |-> TRUE, content |-> content]

FileAt(path) ==
    CASE path[1] \in {"good", "copy"} -> PdfFile(TwoPages)
      [] path[1] = "long" -> PdfFile(LongText)
      [] path[1] = "enc" -> PdfFile(Locked)
      [] path[1] = "scan" -> PdfFile(Scanned)
      [] path[1] = "zero" -> PdfFile(ZeroPages)
      [] path[1] = "bad" -> PdfFile(Corrupt)
      [] path[1] = "denied" -> Unopenable
      [] path[1] = "notes" -> PdfFile(Notes)
      [] OTHER -> Missing

\* os.path.exists(path)
path_exists(path) == FileAt(path).exists

\* path.lower().endswith(".pdf")
lower_extension(ext) == IF ext = ".PDF" THEN ".pdf" ELSE ext
is_pdf_name(path) == lower_extension(path[2]) = ".pdf"

-----------------------------------------------------------------------------
(* The embedding model and the vector index (llama_index, as the program uses it). *)

RECURSIVE count(_, _)
count(text, c) ==
    IF text = <<>> THEN 0
    ELSE (IF Head(text) = c THEN 1 ELSE 0) + count(Tail(text), c)

\* Settings.embed_model: a fixed-length vector, a function of the text alone
embed(text) == <<count(text, "a"), count(text, "b")>>

\* VectorStoreIndex(nodes): the nodes and one embedding per node, in node order
VectorStoreIndex(nodes) == <<"index", nodes, [i \in 1..Len(nodes) |-> embed(nodes[i])]>>

\* the id of the n-th node of an index
node_id(n) == <<"node", n>>

\* index.storage_context.persist: the stores written under the directory, the
\* document store holding id and text of each node, the vector store id and
\* embedding, both in the order of the index
serialize(idx) ==
    [complete |-> TRUE,
     docstore |-> [n \in 1..Len(idx[2]) |-> <<node_id(n), idx[2][n]>>],
     vector_store |-> [n \in 1..Len(idx[3]) |-> <<node_id(n), idx[3][n]>>]]

\* the text the document store holds under an id
get_node(docstore, id) ==
    docstore[CHOOSE n \in 1..Len(docstore) : docstore[n][1] = id][2]

\* load_index_from_storage pairing the embeddings with the nodes in reverse
load_index_reversed(entry) ==
    <<"index",
      [n \in 1..Len(entry.vector_store) |->
          get_node(entry.docstore, entry.vector_store[n][1])],
      [n \in 1..Len(entry.vector_store) |->
          entry.vector_store[Len(entry.vector_store) + 1 - n][2]]>>

\* load_index_from_storage(StorageContext.from_defaults(persist_dir)): the
\* embeddings in the order of the vector store, each with the node of its id
load_index_from_storage(entry) ==
    <<"index",
      [n \in 1..Len(entry.vector_store) |->
          get_node(entry.docstore, entry.vector_store[n][1])],
      [n \in 1..Len(entry.vector_store) |-> entry.vector_store[n][2]]>>

\* a cache directory whose stores are missing or cut short
Incomplete == [complete |-> FALSE, docstore |-> <<>>, vector_store |-> <<>>]

similarity(u, v) == u[1] * v[1] + u[2] * v[2]

\* as_query_engine's retriever: the positions of the similarity_top_k nodes most
\* similar to the question, best first, earlier node first among equals
SIMILARITY_TOP_K == 2

RECURSIVE top_k(_, _, _, _)
top_k(idx, query_vector, k, taken) ==
    LET left == {i \in 1..Len(idx[2]) : \A j \in 1..Len(taken) : taken[j] # i}
    IN  IF k = 0 \/ left = {} THEN taken
        ELSE LET best == CHOOSE i \in left : \A j \in left :
                             \/ similarity(idx[3][i], query_vector) > similarity(idx[3][j], query_vector)
                             \/ /\ similarity(idx[3][i], query_vector) = similarity(idx[3][j], query_vector)
                                /\ i <= j
             IN  top_k(idx, query_vector, k - 1, Append(taken, best))

retrieve(idx, question) ==
    LET hits == top_k(idx, embed(question), SIMILARITY_TOP_K, <<>>)
    IN  [n \in 1..Len(hits) |-> [text |-> idx[2][hits[n]],
                                  score |-> similarity(idx[3][hits[n]], embed(question))]]

-----------------------------------------------------------------------------
(* src/src/main_cli.py: get_or_build_index *)

CACHE_DIR == ".cache"
INDEX_CACHE_DIR == <<CACHE_DIR, "indexes">>

\* os.path.join(INDEX_CACHE_DIR, pdf_id)
index_path_of(pdf_id) == Append(INDEX_CACHE_DIR, pdf_id)

\* the directory tree with path made to hold entry
write_entry(fs, path, entry) ==
    [p \in DOMAIN fs \cup {path} |-> IF p = path THEN entry ELSE fs[p]]

PersistOutcomes == {"ok", "makedirs_raises", "persist_raises_at_once", "persist_raises_midway"}

\* persist_index that puts a rebuilt index next to the entry already there
persist_index_beside(fs, index_path, idx, outcome) ==
    IF outcome = "ok" /\ index_path \in DOMAIN fs
    THEN write_entry(fs, Append(index_path, "new"), serialize(idx))
    ELSE IF outcome = "ok" THEN write_entry(fs, index_path, serialize(idx))
    ELSE fs

\* os.makedirs(index_path, exist_ok=True); index.storage_context.persist(index_path):
\* the directory tree afterwards, for each way the two calls can end
persist_index(fs, index_path, idx, outcome) ==
    CASE outcome = "ok" -> write_entry(fs, index_path, serialize(idx))
      [] outcome = "makedirs_raises" -> fs
      [] outcome = "persist_raises_at_once" ->
            IF index_path \in DOMAIN fs THEN fs ELSE write_entry(fs, index_path, Incomplete)
      [] outcome = "persist_raises_midway" -> write_entry(fs, index_path, Incomplete)

GobiEnvs ==
    [load_raises : BOOLEAN, splitter_raises : BOOLEAN, build_raises : BOOLEAN,
     persist : PersistOutcomes]

\* build_from_scratch creating the cache directory before the text is extracted
build_from_scratch_mkdir_first(file, fs, index_path, env, trace) ==
    LET extracted_text == extract_text_from_pdf(file)
        nodes == chunk_text(extracted_text, env.splitter_raises)
        made == IF index_path \in DOMAIN fs THEN fs ELSE write_entry(fs, index_path, Incomplete)
    IN  IF Falsy(extracted_text) \/ Falsy(nodes) \/ env.build_raises \/ env.persist # "ok"
        THEN [index |-> None, disk |-> made, trace |-> trace \o <<"makedirs", "extract">>]
        ELSE [index |-> VectorStoreIndex(nodes),
              disk |-> write_entry(fs, index_path, serialize(VectorStoreIndex(nodes))),
              trace |-> trace \o <<"makedirs", "extract", "chunk", "build", "persist">>]

\* build_from_scratch returning the index it built whether or not it was persisted
build_from_scratch_unpersisted(file, fs, index_path, env, trace) ==
    LET extracted_text == extract_text_from_pdf(file)
        nodes == chunk_text(extracted_text, env.splitter_raises)
        idx == VectorStoreIndex(nodes)
    IN  IF Falsy(extracted_text)
        THEN [index |-> None, disk |-> fs, trace |-> trace \o <<"extract">>]
        ELSE IF Falsy(nodes)
        THEN [index |-> None, disk |-> fs, trace |-> trace \o <<"extract", "chunk">>]
        ELSE IF env.build_raises
        THEN [index |-> None, disk |-> fs, trace |-> trace \o <<"extract", "chunk", "build">>]
        ELSE IF env.persist = "makedirs_raises"
        THEN [index |-> idx, disk |-> fs,
              trace |-> trace \o <<"extract", "chunk", "build", "makedirs">>]
        ELSE [index |-> idx,
              disk |-> persist_index(fs, index_path, idx, env.persist),
              trace |-> trace \o <<"extract", "chunk", "build", "makedirs", "persist">>]

\* lines 90-107: the nodes tested, then build, makedirs and persist
build_from_nodes(nodes, fs, index_path, env, trace) ==
    LET idx == VectorStoreIndex(nodes)
    IN  IF Falsy(nodes)
        THEN [index |-> None, disk |-> fs, trace |-> trace]
        ELSE IF env.build_raises
        THEN [index |-> None, disk |-> fs, trace |-> trace \o <<"build">>]
        ELSE IF env.persist = "makedirs_raises"
        THEN [index |-> None, disk |-> fs, trace |-> trace \o <<"build", "makedirs">>]
        ELSE [index |-> IF env.persist = "ok" THEN idx ELSE None,
              disk |-> persist_index(fs, index_path, idx, env.persist),
              trace |-> trace \o <<"build", "makedirs", "persist">>]

\* lines 79-107: extract, chunk, build, persist; the index or None, the
\* directory tree afterwards and the stages that ran
build_from_scratch(file, fs, index_path, env, trace) ==
    LET extracted_text == extract_text_from_pdf(file)
    IN  IF Falsy(extracted_text)
        THEN [index |-> None, disk |-> fs, trace |-> trace \o <<"extract">>]
        ELSE build_from_nodes(chunk_text(extracted_text, env.splitter_raises),
                              fs, index_path, env, trace \o <<"extract", "chunk">>)

\* the except clause of the cache load returning None where the code falls through
after_failed_load_give_up(file, fs, index_path, env, trace) ==
    [index |-> None, disk |-> fs, trace |-> trace]

\* lines 76-80: a failed load is logged and the index built from scratch
after_failed_load(file, fs, index_path, env, trace) ==
    build_from_scratch(file, fs, index_path, env, trace)

\* the cache lookup never finding the directory
cache_entry_exists_never(fs, index_path) == FALSE

\* os.path.exists(index_path)
cache_entry_exists(fs, index_path) == index_path \in DOMAIN fs

\* a load that succeeds on whatever the directory holds
load_fails_only_if_raises(fs, index_path, env) == env.load_raises

\* whether StorageContext.from_defaults / load_index_from_storage raise
load_fails(fs, index_path, env) == env.load_raises \/ ~fs[index_path].complete

get_or_build_index(pdf_path, fs, env) ==
    LET file == FileAt(pdf_path)
        pdf_id == get_pdf_id(file)
        index_path == index_path_of(pdf_id)
    IN  IF Falsy(pdf_id)
        THEN [index |-> None, disk |-> fs, trace |-> <<"get_pdf_id">>]
        ELSE IF cache_entry_exists(fs, index_path)
        THEN IF load_fails(fs, index_path, env)
             THEN after_failed_load(file, fs, index_path, env, <<"get_pdf_id", "load">>)
             ELSE [index |-> load_index_from_storage(fs[index_path]), disk |-> fs,
                   trace |-> <<"get_pdf_id", "load">>]
        ELSE build_from_scratch(file, fs, index_path, env, <<"get_pdf_id">>)

-----------------------------------------------------------------------------
(* src/src/main_cli.py: run and query_index_interactive; main.py: the script. *)

EOF == <<"EOF">>                \* input() raises EOFError
Interrupt == <<"Interrupt">>    \* KeyboardInterrupt

Quit == <<"q", "u", "i", "t">>
Exit == <<"e", "x", "i", "t">>
Yes == <<"y", "e", "s">>

\* the lines typed at the question prompt and at the show-sources prompt
Lines == {<<>>, <<SP>>, Quit, <<SP, "E", "x", "i", "t", SP>>, <<"a">>, <<"b", SP, "a">>,
          Yes, <<"Y", "E", "S", SP>>, <<"n", "o">>}

lower_char(c) ==
    CASE c = "E" -> "e" [] c = "Y" -> "y" [] c = "S" -> "s" [] OTHER -> c

\* str.lower()
lower(text) == [i \in 1..Len(text) |-> lower_char(text[i])]

ConfigOutcomes == {"ok", "no_api_key", "raises"}

\* what query_engine.query does: a response, or the exception it raises
QueryOutcomes == {"response", "embed_raises", "timeout", "http_error", "malformed",
                  "interrupt"}
GenerationFailures == {"timeout", "http_error", "malformed"}

NoGobi == [called |-> FALSE]
NoLoop == [entered |-> FALSE]

RunInit ==
    /\ pc = "stopped"
    /\ program = "main_cli"
    /\ exit_status = <<>>
    /\ pdf_file_path = None
    /\ index = None
    /\ query_engine = None
    /\ disk = <<>>
    /\ gobi = NoGobi
    /\ built = <<>>
    /\ loop = NoLoop

\* a process starts: configure_llama_index_settings
Start(prog, config) ==
    /\ pc = "stopped"
    /\ program' = prog
    /\ pc' = IF config = "ok" THEN "path_prompt" ELSE "stopped"
    /\ exit_status' = IF config = "ok" THEN <<>> ELSE <<1>>
    /\ pdf_file_path' = None
    /\ index' = None
    /\ query_engine' = None
    /\ gobi' = NoGobi
    /\ loop' = NoLoop
    /\ UNCHANGED <<disk, built, fn_vars, src_config>>

\* the path prompt: one line read
ReadPath(line) ==
    /\ pc = "path_prompt"
    /\ IF line = EOF
       THEN /\ pc' = "stopped"
            /\ exit_status' = <<1>>             \* the EOFError is not caught
            /\ UNCHANGED pdf_file_path
       ELSE IF path_exists(line) /\ is_pdf_name(line)
       THEN /\ pc' = "index"
            /\ pdf_file_path' = line
            /\ UNCHANGED exit_status
       ELSE UNCHANGED <<pc, pdf_file_path, exit_status>>
    /\ UNCHANGED <<program, index, query_engine, disk, gobi, built, loop, fn_vars, src_config>>

\* run with the test of the index left out
run_after_index_unchecked(idx) == "query_loop"

\* lines 186-191 of run: without an index the process exits with status 1
run_after_index(idx) == IF Falsy(idx) THEN "exit_1" ELSE "query_loop"

\* query_index_interactive up to its loop, and what run does after it returns
EnterLoop(idx, engine_raises) ==
    IF Falsy(idx) \/ engine_raises
    THEN /\ pc' = "stopped"
         /\ exit_status' = <<0>>
         /\ query_engine' = None
         /\ loop' = NoLoop
    ELSE /\ pc' = "query_prompt"
         /\ exit_status' = <<>>
         /\ query_engine' = <<"engine", idx>>
         /\ loop' = [entered |-> TRUE, entry |-> idx, last |-> "entered",
                     failure |-> "none", used |-> None, response |-> None,
                     line |-> None, prompt |-> "none", issued |-> 0,
                     answer_printed |-> FALSE]

AfterIndex(idx, engine_raises) ==
    IF run_after_index(idx) = "exit_1"
    THEN /\ pc' = "stopped"
         /\ exit_status' = <<1>>
         /\ UNCHANGED <<query_engine, loop>>
    ELSE EnterLoop(idx, engine_raises)

EntryState(fs, path) ==
    IF path \notin DOMAIN fs THEN "absent"
    ELSE IF fs[path].complete THEN "complete" ELSE "incomplete"

\* run, line 184 and on: get_or_build_index has returned r for the file whose
\* fingerprint is pdf_id; the call is recorded and run goes on
Returned(r, pdf_id, env, engine_raises) ==
    /\ index' = r.index
    /\ disk' = r.disk
    /\ gobi' = [called |-> TRUE, path |-> pdf_file_path, pdf_id |-> pdf_id, env |-> env,
                entry_before |-> EntryState(disk, index_path_of(pdf_id)),
                dirs_before |-> DOMAIN disk,
                built_before |-> pdf_id \in DOMAIN built,
                built_index_before |-> IF pdf_id \in DOMAIN built
                                       THEN built[pdf_id] ELSE None,
                trace |-> r.trace, returned |-> r.index]
    /\ built' = IF r.index # None /\ r.trace[Len(r.trace)] = "persist"
                THEN write_entry(built, pdf_id, r.index) ELSE built
    /\ AfterIndex(r.index, engine_raises)

\* run, step 3 and on: get_or_build_index, then the query loop or exit
GetOrBuild(env, engine_raises) ==
    /\ pc = "index"
    /\ program = "main_cli"
    /\ Returned(get_or_build_index(pdf_file_path, disk, env),
                get_pdf_id(FileAt(pdf_file_path)), env, engine_raises)
    /\ UNCHANGED <<program, pdf_file_path, fn_vars, src_config>>

\* main.py's extract_text_from_pdf: no test for encryption and no try around a
\* page, so a page that raises (every page of an undecrypted file does) ends
\* the extraction in the outer except clause
main_extract_text_from_pdf(file) ==
    IF ~file.exists THEN None
    ELSE IF ~file.readable \/ ~file.content.parsable THEN None
    ELSE IF Len(file.content.pages) = 0 THEN None
    ELSE IF file.content.encrypted
            \/ \E i \in 1..Len(file.content.pages) : file.content.pages[i] = Raises
    THEN None
    ELSE LET text == extract_pages(file.content.pages, 1, <<>>)
         IN  IF strip(text) = <<>> THEN None ELSE text

\* main.py's chunk_text
main_chunk_text(text, splitter_raises) ==
    IF Falsy(text) THEN <<>>
    ELSE IF splitter_raises THEN <<>>
    ELSE nodes_or_empty(get_nodes_from_documents(text, CHUNK_SIZE, CHUNK_OVERLAP))

\* main.py's build_vector_index
build_vector_index(nodes, build_raises) ==
    IF Falsy(nodes) THEN None
    ELSE IF build_raises THEN None
    ELSE VectorStoreIndex(nodes)

\* main.py, steps 4 and 5 on the extracted text: the index, or None when the
\* script exits at either step (build_vector_index gives None for no nodes)
main_index(extracted_text, env) ==
    IF Falsy(extracted_text) THEN None
    ELSE build_vector_index(main_chunk_text(extracted_text, env.splitter_raises),
                            env.build_raises)

\* main.py, step 6: the index kept, then the loop or exit
Built(idx, engine_raises) ==
    /\ index' = idx
    /\ AfterIndex(idx, engine_raises)

\* main.py, steps 3 to 6: extract, chunk, build_vector_index, then the loop or exit
BuildMain(env, engine_raises) ==
    /\ pc = "index"
    /\ program = "main"
    /\ Built(main_index(main_extract_text_from_pdf(FileAt(pdf_file_path)), env),
             engine_raises)
    /\ UNCHANGED <<program, pdf_file_path, disk, gobi, built, fn_vars, src_config>>

\* the show-sources prompt issued whether the query returned or raised
next_after_query_always_sources(outcome) ==
    IF outcome = "interrupt" THEN "stopped" ELSE "sources_prompt"

\* the loop ended by the first exception of a query
next_after_query_break(outcome) ==
    IF outcome = "response" THEN "sources_prompt" ELSE "stopped"

\* where the loop goes after query_engine.query: on to the show-sources prompt,
\* out of the loop on KeyboardInterrupt, back to the question prompt on any
\* other exception
next_after_query(outcome) ==
    CASE outcome = "response" -> "sources_prompt"
      [] outcome = "interrupt" -> "stopped"
      [] OTHER -> "query_prompt"

\* a query answered from an index built anew instead of the engine's index
query_rebuilt(engine, user_query) ==
    <<"response", VectorStoreIndex(<<user_query>>), retrieve(engine[2], user_query)>>

\* query_engine.query(user_query) when it returns: the response, the index it
\* was answered from and the source nodes
query(engine, user_query) == <<"response", engine[2], retrieve(engine[2], user_query)>>

\* the exit test comparing the line as typed
is_exit_keyword_as_typed(user_query) == user_query \in {Quit, Exit}

\* user_query.lower() in ['quit', 'exit']
is_exit_keyword(user_query) == lower(user_query) \in {Quit, Exit}

\* the loop as one call of input() leaves it: the line read, the prompt that
\* read it, no query made and no answer printed yet
after_input(line, prompt) ==
    [loop EXCEPT !.line = line, !.prompt = prompt, !.issued = 0, !.answer_printed = FALSE]

\* the question prompt: one line read and, for a question, the query made
ReadQuery(line, outcome) ==
    /\ pc = "query_prompt"
    /\ LET user_query == strip(line)
           read == after_input(line, "query")
       IN  IF line \in {EOF, Interrupt}
           THEN /\ pc' = "stopped"
                /\ exit_status' = <<0>>
                /\ loop' = [read EXCEPT !.last = IF line = EOF THEN "eof" ELSE "interrupt"]
           ELSE IF user_query = <<>>
           THEN /\ loop' = [read EXCEPT !.last = "blank"]
                /\ UNCHANGED <<pc, exit_status>>
           ELSE IF is_exit_keyword(user_query)
           THEN /\ pc' = "stopped"
                /\ exit_status' = <<0>>
                /\ loop' = [read EXCEPT !.last = "exit_keyword"]
           ELSE /\ pc' = next_after_query(outcome)
                /\ exit_status' = IF next_after_query(outcome) = "stopped" THEN <<0>> ELSE <<>>
                /\ loop' = CASE outcome = "response" ->
                                  [read EXCEPT !.last = "answered",
                                               !.issued = 1,
                                               !.answer_printed = TRUE,
                                               !.used = query(query_engine, user_query)[2],
                                               !.response = query(query_engine, user_query)]
                             [] outcome = "interrupt" ->
                                  [read EXCEPT !.last = "interrupt", !.issued = 1]
                             [] OTHER -> [read EXCEPT !.last = "query_failed",
                                                      !.issued = 1,
                                                      !.failure = outcome]
    /\ UNCHANGED <<program, pdf_file_path, index, query_engine, disk, gobi, built, fn_vars, src_config>>

\* the show-sources prompt: one line read
ReadSources(line) ==
    /\ pc = "sources_prompt"
    /\ LET read == after_input(line, "sources")
       IN  IF line \in {EOF, Interrupt}
           THEN /\ pc' = "stopped"
                /\ exit_status' = <<0>>
                /\ loop' = [read EXCEPT !.last = IF line = EOF THEN "eof" ELSE "interrupt",
                                        !.response = None]
           ELSE /\ pc' = "query_prompt"
                /\ UNCHANGED exit_status
                /\ loop' = [read EXCEPT
                            !.last = IF lower(strip(line)) = Yes
                                     THEN (IF loop.response[3] # <<>> THEN "sources_shown"
                                           ELSE "no_sources_info")
                                     ELSE "sources_skipped",
                            !.response = None]
    /\ UNCHANGED <<program, pdf_file_path, index, query_engine, disk, gobi, built, fn_vars, src_config>>

Next ==
    \/ \E prog \in {"main_cli", "main"}, config \in ConfigOutcomes : Start(prog, config)
    \/ \E line \in Paths \cup {EOF} : ReadPath(line)
    \/ \E env \in GobiEnvs, engine_raises \in BOOLEAN : GetOrBuild(env, engine_raises)
    \/ \E env \in GobiEnvs, engine_raises \in BOOLEAN : BuildMain(env, engine_raises)
    \/ \E line \in Lines \cup {EOF, Interrupt}, outcome \in QueryOutcomes : ReadQuery(line, outcome)
    \/ \E line \in Lines \cup {EOF, Interrupt} : ReadSources(line)

-----------------------------------------------------------------------------
(* src/src/llm_client.py: OpenRouterLLM.chat.  What the HTTP call does is the  *)
(* exchange: whether requests.post raises, and the status and the body of    *)
(* the response it returns.                                                  *)

NetworkOutcomes == {"ok", "ConnectionError", "Timeout"}

StatusCodes == {200, 201, 304, 400, 401, 429, 500, 503}

\* a body that is not JSON, a JSON list, or a JSON object as far as chat reads it
NoBody == [json |-> "invalid", choices |-> "absent", message |-> "absent",
           content |-> "absent", role |-> "absent"]

Bodies ==
    {NoBody, [NoBody EXCEPT !.json = "list"]}
    \cup {[NoBody EXCEPT !.json = "object", !.choices = c] : c \in {"absent", "empty"}}
    \cup {[NoBody EXCEPT !.json = "object", !.choices = "one", !.message = m] :
               m \in {"absent", "empty"}}
    \cup {[json |-> "object", choices |-> "one", message |-> "object",
            content |-> c, role |-> r] :
               c \in {"absent", "null", "text"}, r \in {"absent", "assistant", "robot"}}

Exchanges ==
    {[network |-> n, status |-> 200, body |-> NoBody] : n \in NetworkOutcomes \ {"ok"}}
    \cup {[network |-> "ok", status |-> st, body |-> b] : st \in StatusCodes, b \in Bodies}

\* the values of MessageRole
MessageRoles == {"system", "user", "assistant", "function", "tool", "chatbot", "model"}

raised(exception, log) == [value |-> <<"raises", exception>>, log |-> log]

\* response.raise_for_status() leaving every status through
raise_for_status_never(status) == FALSE

\* response.raise_for_status(): HTTPError for a 4xx or 5xx status
raise_for_status(status) == status >= 400 /\ status < 600

\* lines 91-99: the parsed body to a ChatResponse or an exception
parse_response(response_json) ==
    IF response_json.json = "list"
    THEN raised("AttributeError", "none")       \* .get of a list: not caught
    ELSE IF response_json.choices \in {"absent", "empty"}
            \/ response_json.message \in {"absent", "empty"}
    THEN raised("ValueError", "Error parsing OpenRouter response")
    ELSE IF response_json.content = "absent"
    THEN raised("KeyError", "Error parsing OpenRouter response")
    ELSE LET role_str == IF response_json.role = "absent" THEN "assistant"
                         ELSE response_json.role
         IN  IF role_str \notin MessageRoles
             THEN raised("ValueError", "Error parsing OpenRouter response")
             ELSE [value |-> <<"ChatResponse", role_str, response_json.content>>,
                   log |-> "none"]

\* chat: the ChatResponse returned or the exception raised, and what is printed.
\* json_error_is_request_exception: whether the installed requests raises its
\* own JSONDecodeError (a RequestException) or the json module's (a ValueError,
\* whose handler then fails on the unbound response_json)
chat_outcome(exchange, json_error_is_request_exception) ==
    IF exchange.network # "ok"
    THEN raised(exchange.network, "API Error calling OpenRouter")
    ELSE IF raise_for_status(exchange.status)
    THEN raised("HTTPError", "API Error calling OpenRouter")
    ELSE IF exchange.body.json = "invalid"
    THEN IF json_error_is_request_exception
         THEN raised("JSONDecodeError", "API Error calling OpenRouter")
         ELSE raised("UnboundLocalError", "none")
    ELSE parse_response(exchange.body)

chat(exchange, json_error_is_request_exception) ==
    chat_outcome(exchange, json_error_is_request_exception).value

-----------------------------------------------------------------------------
(* The pure functions of pdf_processor.py, each called on generated inputs. *)

NoCall == [kind |-> "none", value |-> None]

FnInit ==
    /\ fn_pc = "ready"
    /\ fn_in = None
    /\ fn_out = None
    /\ fn_log = "none"
    /\ fn_prev = NoCall

CallExtract(file) ==
    /\ fn_pc' = "extract"
    /\ fn_in' = file
    /\ fn_out' = extract_text_from_pdf(file)
    /\ fn_log' = extract_outcome(file).log
    /\ fn_prev' = IF fn_pc = "extract" /\ Kind(fn_in) \in FailureKinds
                  THEN [kind |-> Kind(fn_in), value |-> fn_out]
                  ELSE fn_prev
    /\ UNCHANGED <<run_vars, src_config>>

CallChunk(text, splitter_raises) ==
    /\ fn_pc' = "chunk"
    /\ fn_in' = [text |-> text, splitter_raises |-> splitter_raises]
    /\ fn_out' = chunk_text(text, splitter_raises)
    /\ fn_log' = "none"
    /\ UNCHANGED <<fn_prev, run_vars, src_config>>

CallChat(exchange, json_error_is_request_exception) ==
    /\ fn_pc' = "chat"
    /\ fn_in' = exchange
    /\ fn_out' = chat(exchange, json_error_is_request_exception)
    /\ fn_log' = chat_outcome(exchange, json_error_is_request_exception).log
    /\ UNCHANGED <<fn_prev, run_vars, src_config>>

\* the files of the catalog
CatalogFiles == {FileAt(path) : path \in Paths}

\* get_pdf_id called on a file and on the file at pdf_path
CallGetPdfId(file, pdf_path) ==
    /\ fn_pc' = "get_pdf_id"
    /\ fn_in' = [file |-> file, pdf_path |-> pdf_path]
    /\ fn_out' = <<get_pdf_id(file), get_pdf_id(FileAt(pdf_path))>>
    /\ fn_log' = IF get_pdf_id(file) = None \/ get_pdf_id(FileAt(pdf_path)) = None
                 THEN "error: could not read file to generate ID" ELSE "none"
    /\ UNCHANGED <<fn_prev, run_vars, src_config>>

\* one pair of calls in a behaviour: the results do not depend on earlier calls
FingerprintNext ==
    /\ fn_pc = "ready"
    /\ \E file \in Files \cup CatalogFiles, pdf_path \in Paths : CallGetPdfId(file, pdf_path)

\* one call of chat in a behaviour: its result does not depend on earlier calls
ChatNext ==
    /\ fn_pc = "ready"
    /\ \E exchange \in Exchanges, json_error_is_request_exception \in BOOLEAN :
          CallChat(exchange, json_error_is_request_exception)

ExtractNext == \E file \in Files : CallExtract(file)

\* one call of chunk_text in a behaviour: its result does not depend on earlier calls
ChunkNext ==
    /\ fn_pc = "ready"
    /\ \E text \in ChunkInputs, splitter_raises \in BOOLEAN : CallChunk(text, splitter_raises)

Init == RunInit /\ FnInit /\ src_config = ShippedConfig

\* the program started with src/config.py as shipped or edited
InitConfig == RunInit /\ FnInit /\ src_config \in ChunkConfigs

\* the program
Spec == Init /\ [][Next]_vars

\* extract_text_from_pdf on every generated file
SpecExtract == Init /\ [][ExtractNext]_vars

\* chunk_text on every generated text
SpecChunk == Init /\ [][ChunkNext]_vars

\* get_pdf_id on every generated file and every file of the catalog
SpecFingerprint == Init /\ [][FingerprintNext]_vars

\* OpenRouterLLM.chat on every generated exchange
SpecChat == Init /\ [][ChatNext]_vars

\* the program under each configuration of the chunker
SpecConfig == InitConfig /\ [][Next]_vars

-----------------------------------------------------------------------------
(* Properties of extract_text_from_pdf and chunk_text (SpecExtract, SpecChunk). *)

\* C8 as stated: extract_text_from_pdf surfaces each failure as a tagged reason,
\* so two failed extractions of different kinds (NotFound, Unreadable, Encrypted,
\* Empty, NoExtractableText) return values the caller can tell apart.
C8_TaggedReasonsDistinct ==
    (/\ fn_pc = "extract"
     /\ Kind(fn_in) \in FailureKinds
     /\ fn_prev.kind \notin {"none", Kind(fn_in)})
    => fn_out # fn_prev.value

\* C8 amended: extract_text_from_pdf returns None for every one of the five
\* failure kinds and a text otherwise, so the returned value tells failure from
\* success but not one failure kind from another.
C8_FailureIsNone ==
    fn_pc = "extract" =>
        /\ Kind(fn_in) \in FailureKinds => fn_out = None
        /\ Kind(fn_in) = "Ok" => fn_out # None
        /\ (Kind(fn_in) \in FailureKinds /\ fn_prev.kind # "none") => fn_out = fn_prev.value

C8_Witness ==
    /\ fn_pc = "extract"
    /\ Kind(fn_in) = "Encrypted"
    /\ fn_prev.kind = "NoExtractableText"
    /\ fn_out = None

\* C9: for a readable, unencrypted document with at least one page the result is
\* the concatenation, in page order, of every non-empty page text that was
\* extracted without raising, each followed by a newline; a raising page is
\* skipped; and the extraction fails (None) exactly when that concatenation is
\* empty or whitespace-only.
C9_PagesConcatenated ==
    (/\ fn_pc = "extract"
     /\ fn_in.exists /\ fn_in.readable /\ fn_in.content.parsable
     /\ ~fn_in.content.encrypted
     /\ Len(fn_in.content.pages) >= 1)
    => LET pages == fn_in.content.pages
           part[i \in 1..Len(pages)] ==
               IF pages[i] = Raises \/ pages[i] = <<>> THEN <<>> ELSE pages[i] \o <<NL>>
           concatenation == join(part)
       IN  /\ (fn_out = None) <=> (strip(concatenation) = <<>>)
           /\ fn_out # None => fn_out = concatenation

C9_Witness ==
    /\ fn_pc = "extract"
    /\ fn_in.content.pages = << <<"b">>, Raises, <<"a">> >>
    /\ fn_in.readable /\ ~fn_in.content.encrypted
    /\ fn_out = <<"b", NL, "a", NL>>

\* C10 as stated: chunk_text returns an empty sequence for "" and None, and for
\* any non-empty text shorter than the chunk size exactly one segment whose
\* content equals the whole input text.
C10_ShortTextIsOneEqualSegment ==
    (fn_pc = "chunk" /\ ~fn_in.splitter_raises) =>
        /\ Falsy(fn_in.text) => fn_out = <<>>
        /\ (~Falsy(fn_in.text) /\ Len(fn_in.text) < CHUNK_SIZE) => fn_out = <<fn_in.text>>

\* C10 amended: chunk_text returns an empty sequence for "" and None; for a
\* non-empty text shorter than the chunk size it returns, when the splitter does
\* not raise, exactly one segment whose content is the input with leading and
\* trailing whitespace removed, or no segment when the text is all whitespace;
\* when the splitter raises it returns an empty sequence.
C10_ShortTextIsOneStrippedSegment ==
    fn_pc = "chunk" =>
        /\ Falsy(fn_in.text) => fn_out = <<>>
        /\ fn_in.splitter_raises => fn_out = <<>>
        /\ (~Falsy(fn_in.text) /\ Len(fn_in.text) < CHUNK_SIZE /\ ~fn_in.splitter_raises) =>
               fn_out = IF strip(fn_in.text) = <<>> THEN <<>> ELSE <<strip(fn_in.text)>>

C10_Witness ==
    /\ fn_pc = "chunk"
    /\ fn_in = [text |-> <<SP, "a", NL>>, splitter_raises |-> FALSE]
    /\ fn_out = << <<"a">> >>

\* what extract_text_from_pdf can return: not blank, a newline after the last page
NormalizedText(text) ==
    text # None /\ strip(text) # <<>> /\ text[Len(text)] = NL

\* text is segs in order, each segment after the first without an overlap of at
\* most max_overlap characters that ends its predecessor prev, with nothing but
\* characters of gaps before, between and after them
RECURSIVE Reconstructs(_, _, _, _, _)
Reconstructs(text, segs, prev, max_overlap, gaps) ==
    IF segs = <<>> THEN \A i \in 1..Len(text) : text[i] \in gaps
    ELSE LET seg == Head(segs)
         IN  \E k \in 0..max_overlap, j \in 0..Len(text) :
                /\ k <= Len(seg) /\ k <= Len(prev)
                /\ SubSeq(seg, 1, k) = SubSeq(prev, Len(prev) - k + 1, Len(prev))
                /\ \A i \in 1..j : text[i] \in gaps
                /\ LET rest == SubSeq(seg, k + 1, Len(seg))
                   IN  /\ j + Len(rest) <= Len(text)
                       /\ SubSeq(text, j + 1, j + Len(rest)) = rest
                       /\ Reconstructs(SubSeq(text, j + Len(rest) + 1, Len(text)),
                                       Tail(segs), seg, max_overlap, gaps)

\* C12 as stated: for every normalized text the segments chunk_text returns cover
\* it without gaps: the segments in order, each after the first without the
\* overlap it shares with its predecessor, an overlap of at most the chunk size,
\* concatenate to exactly the text.
C12_SegmentsReconstructText ==
    (fn_pc = "chunk" /\ ~fn_in.splitter_raises /\ NormalizedText(fn_in.text)) =>
        Reconstructs(fn_in.text, fn_out, <<>>, CHUNK_SIZE, {})

\* C12 amended: for every text on which the splitter does not raise, the segments
\* chunk_text returns cover the text up to whitespace at segment boundaries: each
\* segment is non-empty, without leading or trailing whitespace and of at most
\* CHUNK_SIZE tokens, and the text is the segments in order, each after the first
\* without an overlap of at most CHUNK_OVERLAP tokens that ends its predecessor,
\* with only whitespace (which the chunker drops) before, between and after them.
C12_SegmentsCoverTextUpToWhitespace ==
    (fn_pc = "chunk" /\ ~fn_in.splitter_raises /\ fn_in.text # None) =>
        /\ \A i \in 1..Len(fn_out) :
              /\ fn_out[i] # <<>>
              /\ strip(fn_out[i]) = fn_out[i]
              /\ token_size(fn_out[i]) <= CHUNK_SIZE
        /\ Reconstructs(fn_in.text, fn_out, <<>>, CHUNK_OVERLAP, Whitespace)

C12_Witness ==
    /\ fn_pc = "chunk"
    /\ fn_in = [text |-> <<"a", "a", "a", "a", "a", NL>>, splitter_raises |-> FALSE]
    /\ fn_out = << <<"a", "a", "a", "a">>, <<"a", "a">> >>

-----------------------------------------------------------------------------
(* Properties of get_pdf_id (SpecFingerprint). *)

Opens(file) == file.exists /\ file.readable

-----------------------------------------------------------------------------
(* Properties of OpenRouterLLM.chat (SpecChat). *)

Raised(result) == result[1] = "raises"

\* the exception classes of the three kinds of failure
NetworkErrors == {"ConnectionError", "Timeout"}
StatusErrors == {"HTTPError"}
FormatErrors == {"ValueError", "KeyError"}

\* the body lacks the generated text: no choices, no message or no content
LacksGeneratedText(body) ==
    /\ body.json = "object"
    /\ \/ body.choices \in {"absent", "empty"}
       \/ body.message \in {"absent", "empty"}
       \/ body.content = "absent"

\* C13 as stated: chat raises on a network error or timeout, on a non-2xx
\* status and on a 2xx response whose body lacks the generated text, with an
\* exception class of its own for each of the three cases, and returns a
\* ChatResponse only when the response carries choices[0].message.content.
C13_FailsOnNon2xx ==
    fn_pc = "chat" =>
        /\ fn_in.network # "ok" => (Raised(fn_out) /\ fn_out[2] \in NetworkErrors)
        /\ (fn_in.network = "ok" /\ fn_in.status \notin 200..299) =>
              (Raised(fn_out) /\ fn_out[2] \in StatusErrors)
        /\ (fn_in.network = "ok" /\ fn_in.status \in 200..299
            /\ LacksGeneratedText(fn_in.body)) =>
              (Raised(fn_out) /\ fn_out[2] \in FormatErrors)
        /\ ~Raised(fn_out) => (fn_in.network = "ok" /\ ~LacksGeneratedText(fn_in.body))

\* C13 amended: chat raises on a network error or timeout, on a 4xx or 5xx
\* status, and on a response of any other status whose body lacks the generated
\* text (no choices, no message or no content key), with an exception class of
\* its own for each of the three cases (ConnectionError or Timeout; HTTPError;
\* ValueError or KeyError); it returns a ChatResponse only when the status is
\* neither 4xx nor 5xx and the body carries choices[0].message.content, and the
\* ChatResponse holds that content.
C13_FailsOn4xx5xx ==
    fn_pc = "chat" =>
        /\ NetworkErrors \cap StatusErrors = {}
        /\ NetworkErrors \cap FormatErrors = {}
        /\ StatusErrors \cap FormatErrors = {}
        /\ fn_in.network # "ok" => (Raised(fn_out) /\ fn_out[2] \in NetworkErrors)
        /\ (fn_in.network = "ok" /\ fn_in.status \in 400..599) =>
              (Raised(fn_out) /\ fn_out[2] \in StatusErrors)
        /\ (fn_in.network = "ok" /\ fn_in.status \notin 400..599
            /\ LacksGeneratedText(fn_in.body)) =>
              (Raised(fn_out) /\ fn_out[2] \in FormatErrors)
        /\ ~Raised(fn_out) =>
              /\ fn_in.network = "ok"
              /\ fn_in.status \notin 400..599
              /\ ~LacksGeneratedText(fn_in.body)
              /\ fn_out[1] = "ChatResponse"
              /\ fn_out[3] = fn_in.body.content

C13_Witness ==
    /\ fn_pc = "chat"
    /\ fn_in.network = "ok"
    /\ fn_in.status = 503
    /\ fn_in.body.content = "text"
    /\ fn_out = <<"raises", "HTTPError">>

-----------------------------------------------------------------------------
(* Properties of get_or_build_index, run and the query loop (Spec). *)

InTrace(trace, stage) == \E i \in 1..Len(trace) : trace[i] = stage

\* the load of the cache entry raised in the last call of get_or_build_index
LoadRaised ==
    /\ gobi.called
    /\ \/ gobi.entry_before = "incomplete"
       \/ gobi.entry_before = "complete" /\ gobi.env.load_raises

\* C1 as stated: once get_or_build_index has built and persisted the index of a
\* document, every later call on that document takes the cache-hit path and
\* returns an index without extraction, chunking or index build.
C1_LaterCallsAlwaysHit ==
    (gobi.called /\ gobi.built_before) =>
        /\ gobi.trace = <<"get_pdf_id", "load">>
        /\ gobi.returned # None

\* C1 amended: once get_or_build_index has built and persisted the index of a
\* document, every later call on that document finds the cache entry and tries
\* to load it; when the load does not raise, the call returns the loaded index
\* without extraction, chunking or index build; when the load raises, the call
\* rebuilds (extraction, chunking and index build run again).
C1_LaterCallsHitUnlessLoadRaises ==
    (gobi.called /\ gobi.built_before) =>
        /\ gobi.entry_before # "absent"
        /\ Len(gobi.trace) >= 2 /\ gobi.trace[2] = "load"
        /\ ~LoadRaised =>
              /\ gobi.trace = <<"get_pdf_id", "load">>
              /\ gobi.returned # None
              /\ gobi.returned[2] = chunk_text(extract_text_from_pdf(FileAt(gobi.path)), FALSE)
        /\ LoadRaised => InTrace(gobi.trace, "extract")

C1_Witness ==
    /\ gobi.called /\ gobi.built_before
    /\ ~LoadRaised
    /\ gobi.trace = <<"get_pdf_id", "load">>
    /\ gobi.returned # None

\* C2: when a cache entry exists but loading it raises, get_or_build_index goes
\* on as on a cache miss (extraction, chunking, build, persist), returns the
\* rebuilt index whenever those steps succeed, and fails only if one of them fails.
C2_FailedLoadRebuilds ==
    LoadRaised =>
        LET extracted_text == extract_text_from_pdf(FileAt(gobi.path))
            steps_succeed == /\ ~Falsy(extracted_text)
                             /\ ~gobi.env.splitter_raises
                             /\ ~gobi.env.build_raises
                             /\ gobi.env.persist = "ok"
        IN  /\ Len(gobi.trace) >= 3 /\ SubSeq(gobi.trace, 1, 3) = <<"get_pdf_id", "load", "extract">>
            /\ steps_succeed =>
                  /\ gobi.returned = VectorStoreIndex(chunk_text(extracted_text, FALSE))
                  /\ gobi.trace = <<"get_pdf_id", "load", "extract", "chunk", "build",
                                    "makedirs", "persist">>
                  /\ disk[index_path_of(gobi.pdf_id)] = serialize(gobi.returned)
            /\ gobi.returned = None => ~steps_succeed

C2_Witness ==
    /\ LoadRaised
    /\ gobi.entry_before = "incomplete"
    /\ gobi.returned # None
    /\ disk[index_path_of(gobi.pdf_id)].complete

\* C3: when text extraction fails in get_or_build_index (document encrypted, with
\* zero pages, without extractable text, unparsable or not readable at all, in
\* which case the call ends before extraction), the call returns failure,
\* no index is built (the embedding function is not invoked) and no cache
\* directory exists afterwards that did not exist before the call.
C3_FailedExtractionBuildsNothing ==
    (/\ gobi.called
     /\ Kind(FileAt(gobi.path)) \in FailureKinds)
    => /\ gobi.returned = None
       /\ gobi.pdf_id # None => InTrace(gobi.trace, "extract")
       /\ ~InTrace(gobi.trace, "build")
       /\ DOMAIN disk \subseteq gobi.dirs_before

C3_Witness ==
    /\ gobi.called
    /\ Kind(FileAt(gobi.path)) = "Encrypted"
    /\ gobi.trace = <<"get_pdf_id", "extract">>
    /\ gobi.returned = None
    /\ gobi.dirs_before # {}

\* C4: after any sequence of get_or_build_index calls there is at most one cache
\* directory per fingerprint, and it is INDEX_CACHE_DIR/<fingerprint>; a rebuild
\* writes the index to that same directory and adds no directory.
C4_OneEntryPerFingerprint ==
    /\ \A p \in DOMAIN disk :
          \E path \in Paths : /\ get_pdf_id(FileAt(path)) # None
                              /\ p = INDEX_CACHE_DIR \o <<get_pdf_id(FileAt(path))>>
    /\ \A path \in Paths :
          Cardinality({p \in DOMAIN disk :
                          Len(p) >= 3 /\ p[3] = get_pdf_id(FileAt(path))}) <= 1
    /\ (/\ gobi.called
        /\ gobi.entry_before # "absent"
        /\ InTrace(gobi.trace, "persist")
        /\ gobi.returned # None)
       => /\ DOMAIN disk = gobi.dirs_before
          /\ disk[INDEX_CACHE_DIR \o <<gobi.pdf_id>>] = serialize(gobi.returned)

C4_Witness ==
    /\ gobi.called
    /\ gobi.entry_before = "complete"
    /\ InTrace(gobi.trace, "persist")
    /\ gobi.returned # None
    /\ Cardinality(DOMAIN disk) = 2

LoopPcs == {"query_prompt", "sources_prompt"}

\* a step taken inside the query loop
LoopStepKeepsIndex ==
    pc \in LoopPcs =>
        /\ index' = index
        /\ (pc' \in LoopPcs => query_engine' = query_engine)
        /\ UNCHANGED <<gobi, disk, built>>

LoopAnswersFromEntryIndex ==
    pc \in LoopPcs =>
        /\ index = loop.entry
        /\ query_engine = <<"engine", loop.entry>>
        /\ (loop.last = "answered" => loop.used = loop.entry)

\* C5: a query whose generation call fails leaves the index and the query engine
\* unchanged, no step of the loop calls get_or_build_index or builds an index,
\* and a question asked later in the same loop is answered from the same index.
C5_FailedQueryKeepsIndex == [][LoopStepKeepsIndex]_vars /\ []LoopAnswersFromEntryIndex

C5_Witness ==
    /\ pc = "sources_prompt"
    /\ loop.last = "answered"
    /\ loop.failure \in GenerationFailures
    /\ loop.used = index

\* C6: a failure raised while one question is processed (embedding the question
\* or calling generation) does not end the loop: after it the loop is at the
\* question prompt again; the loop ends only on an exit keyword, end of input
\* or an interrupt.
C6_FailureKeepsLoopRunning ==
    loop.entered =>
        /\ loop.last = "query_failed" => (pc = "query_prompt" /\ exit_status = <<>>)
        /\ pc = "stopped" => loop.last \in {"exit_keyword", "eof", "interrupt"}

C6_Witness ==
    /\ loop.entered
    /\ loop.last = "query_failed"
    /\ loop.failure = "embed_raises"
    /\ pc = "query_prompt"

\* C7: in run, when get_or_build_index returns failure the process ends with exit
\* status 1 and the query loop is never entered; the loop is entered only with
\* the index get_or_build_index returned.
C7_NoIndexNoLoop ==
    program = "main_cli" =>
        /\ (gobi.called /\ gobi.returned = None) =>
              (pc = "stopped" /\ exit_status = <<1>> /\ ~loop.entered)
        /\ loop.entered =>
              (gobi.called /\ gobi.returned # None /\ loop.entry = gobi.returned)

C7_Witness ==
    /\ program = "main_cli"
    /\ gobi.called
    /\ InTrace(gobi.trace, "build")
    /\ gobi.returned = None
    /\ exit_status = <<1>>

-----------------------------------------------------------------------------
(* Properties of the program under an edited src/config.py (SpecConfig). *)

\* C11 as stated: a configuration whose chunk overlap is not strictly less than
\* its chunk size is rejected at startup: the process ends in
\* configure_llama_index_settings, before a path is asked for and before any
\* document is fingerprinted, extracted or chunked.
C11_BadOverlapRejectedAtStartup ==
    (program = "main_cli" /\ src_config.chunk_overlap >= src_config.chunk_size) =>
        /\ pc = "stopped"
        /\ exit_status # <<0>>
        /\ ~gobi.called

-----------------------------------------------------------------------------
(* Further properties of get_or_build_index and the query loop (Spec). *)

\* the step of run that calls get_or_build_index on a document that cannot be read
UnreadableCallKeepsCache ==
    (pc = "index" /\ program = "main_cli" /\ ~Opens(FileAt(pdf_file_path))) =>
        (disk' = disk /\ built' = built)

UnreadableCallFailsAtOnce ==
    (gobi.called /\ ~Opens(FileAt(gobi.path))) =>
        /\ gobi.pdf_id = None
        /\ gobi.trace = <<"get_pdf_id">>
        /\ gobi.returned = None
        /\ index = None
        /\ DOMAIN disk = gobi.dirs_before
        /\ pc = "stopped" /\ exit_status = <<1>>

\* C15: when the document cannot be read while its fingerprint is computed,
\* get_pdf_id fails (it logs the I/O error and returns None) and
\* get_or_build_index returns failure at once: the cache is not looked up,
\* extraction, chunking and the index build do not run, and the cache
\* directory is left as it was.
C15_UnreadableDocumentFailsBeforeCache ==
    [][UnreadableCallKeepsCache]_vars /\ []UnreadableCallFailsAtOnce

C15_Witness ==
    /\ gobi.called
    /\ gobi.path = <<"denied", ".pdf">>
    /\ gobi.trace = <<"get_pdf_id">>
    /\ gobi.returned = None
    /\ gobi.dirs_before # {}
    /\ DOMAIN disk = gobi.dirs_before

\* the last call of get_or_build_index returned an index loaded from the cache
CacheHit ==
    /\ gobi.called
    /\ gobi.trace = <<"get_pdf_id", "load">>
    /\ gobi.returned # None

\* the questions the two indexes are compared on
Probes == {<<"a">>, <<"b">>, <<"b", SP, "a">>, <<"a", "a", "b">>}

AtQuestionPrompt == loop.entered /\ loop.prompt = "query"
EndsInput == loop.line \in {EOF, Interrupt}
IsBlank == ~EndsInput /\ strip(loop.line) = <<>>
IsExitKeyword == ~EndsInput /\ lower(strip(loop.line)) \in {Quit, Exit}
IsQuestion == ~EndsInput /\ ~IsBlank /\ ~IsExitKeyword

\* what the loop does with end of input, an exit keyword and a blank line
EndsOrReprompts ==
    /\ (EndsInput \/ IsExitKeyword) => (pc = "stopped" /\ exit_status = <<0>> /\ loop.issued = 0)
    /\ IsBlank => (pc = "query_prompt" /\ loop.issued = 0)

\* C17 as stated: the loop ends, without a query, as soon as the question prompt
\* reads quit or exit in any letter case, end of input or an interrupt; a blank
\* line makes no query and prompts again; every other line is submitted to the
\* query engine exactly once and its answer is printed before the next question
\* is read.
C17_EveryQuestionAnswered ==
    AtQuestionPrompt =>
        /\ EndsOrReprompts
        /\ IsQuestion => (loop.issued = 1 /\ loop.answer_printed)

\* C17 amended: the loop ends, without a query, as soon as the question prompt
\* reads quit or exit in any letter case, end of input or an interrupt; a blank
\* line makes no query and prompts again; every other line is submitted to the
\* query engine exactly once; when the query returns, its answer is printed
\* before anything else is read; when the query raises, no answer is printed
\* and the loop reads the next question (or ends, on an interrupt).
C17_EveryQuestionSubmittedOnce ==
    AtQuestionPrompt =>
        /\ EndsOrReprompts
        /\ IsQuestion =>
              /\ loop.issued = 1
              /\ loop.last \in {"answered", "query_failed", "interrupt"}
              /\ loop.answer_printed <=> loop.last = "answered"
              /\ loop.last = "answered" =>
                    (pc = "sources_prompt" /\ loop.response[1] = "response")
              /\ loop.last = "query_failed" => pc = "query_prompt"
              /\ loop.last = "interrupt" => pc = "stopped"

C17_Witness ==
    /\ AtQuestionPrompt
    /\ loop.line = <<SP, "E", "x", "i", "t", SP>>
    /\ pc = "stopped"
    /\ loop.issued = 0
    /\ loop.failure \in GenerationFailures

\* a step that reads a line at the show-sources prompt
SourcesReplyIsNoQuestion ==
    pc = "sources_prompt" =>
        /\ loop'.prompt = "sources"
        /\ loop'.issued = 0
        /\ pc' \in {"query_prompt", "stopped"}
        /\ pc' = "stopped" => loop'.line \in {EOF, Interrupt}

\* a step that reads a line after a query that raised
LineAfterFailureIsQuestion ==
    (pc = "query_prompt" /\ loop.last = "query_failed") => loop'.prompt = "query"

SourcesPromptOnlyAfterAnswer ==
    loop.entered =>
        /\ pc = "sources_prompt" <=> loop.last = "answered"
        /\ loop.last = "query_failed" => pc = "query_prompt"
        /\ loop.prompt = "sources" => loop.last \in {"sources_shown", "no_sources_info",
                                                     "sources_skipped", "eof", "interrupt"}

\* C20: the show-sources prompt is issued once after each query that returned a
\* response and never after a query that raised: the line read after an
\* answered question is taken as the show-sources reply, never as a question
\* or an exit keyword, and the line read after a failed question is taken as
\* the next question.
C20_SourcesPromptAlternates ==
    /\ [][SourcesReplyIsNoQuestion /\ LineAfterFailureIsQuestion]_vars
    /\ []SourcesPromptOnlyAfterAnswer

C20_Witness ==
    /\ loop.entered
    /\ loop.prompt = "sources"
    /\ loop.line = Quit
    /\ loop.last = "sources_skipped"
    /\ pc = "query_prompt"

\* the last call of get_or_build_index took the miss path: no cache entry, or
\* one whose load raised
MissPath ==
    /\ gobi.called
    /\ gobi.pdf_id # None
    /\ (gobi.entry_before = "absent" \/ LoadRaised)

\* the stages of the miss path that ran in the last call
MissStages ==
    SubSeq(gobi.trace, IF gobi.entry_before = "absent" THEN 2 ELSE 3, Len(gobi.trace))

IsPrefix(s, t) == Len(s) <= Len(t) /\ SubSeq(t, 1, Len(s)) = s

\* C18: on the miss path the stages run in the order extraction, chunking,
\* index build, persist, each only after the one before it succeeded; an empty
\* chunk sequence ends the call with failure before any embedding; and an
\* index is returned only after it has been persisted under the fingerprint,
\* so a failed persist gives failure, not an unpersisted index.
C18_MissPathStagesInOrder ==
    MissPath =>
        LET extracted_text == extract_text_from_pdf(FileAt(gobi.path))
            nodes == chunk_text(extracted_text, gobi.env.splitter_raises)
        IN  /\ MissStages # <<>>
            /\ IsPrefix(MissStages, <<"extract", "chunk", "build", "makedirs", "persist">>)
            /\ InTrace(MissStages, "chunk") => ~Falsy(extracted_text)
            /\ InTrace(MissStages, "build") => ~Falsy(nodes)
            /\ InTrace(MissStages, "makedirs") => ~gobi.env.build_raises
            /\ InTrace(MissStages, "persist") => gobi.env.persist # "makedirs_raises"
            /\ (~Falsy(extracted_text) /\ Falsy(nodes)) =>
                  (gobi.returned = None /\ MissStages = <<"extract", "chunk">>)
            /\ gobi.returned # None =>
                  /\ MissStages = <<"extract", "chunk", "build", "makedirs", "persist">>
                  /\ gobi.env.persist = "ok"
                  /\ gobi.returned = VectorStoreIndex(nodes)
                  /\ disk[index_path_of(gobi.pdf_id)] = serialize(gobi.returned)
            /\ (InTrace(MissStages, "makedirs") /\ gobi.env.persist # "ok") =>
                  gobi.returned = None

C18_Witness ==
    /\ MissPath
    /\ gobi.entry_before = "absent"
    /\ gobi.env.persist = "persist_raises_midway"
    /\ gobi.trace = <<"get_pdf_id", "extract", "chunk", "build", "makedirs", "persist">>
    /\ gobi.returned = None

\* C19 as stated: after any sequence of get_or_build_index calls a cache
\* directory exists for a fingerprint only if it holds a complete, loadable
\* index: a failed build or persist never leaves a cache directory behind.
C19_EveryCacheDirectoryComplete ==
    \A p \in DOMAIN disk : disk[p].complete

\* C19 amended: after any sequence of get_or_build_index calls every cache
\* directory holds either the complete index last built and persisted under
\* its fingerprint or what a failed persist left of one; a call that fails
\* before its persist step leaves the cache directories as they were, and a
\* call whose persist step fails leaves a directory behind, without a complete
\* index when none was there before;
\* a directory's existence alone is therefore no cache-hit signal, and an index
\* is returned from the cache only when the directory held a complete one.
C19_CacheDirectoryCompleteOrRemains ==
    /\ \A p \in DOMAIN disk :
          \/ disk[p] = Incomplete
          \/ /\ disk[p].complete
             /\ p[3] \in DOMAIN built
             /\ disk[p] = serialize(built[p[3]])
    /\ (gobi.called /\ ~InTrace(gobi.trace, "persist")) =>
          /\ DOMAIN disk = gobi.dirs_before
          /\ gobi.pdf_id # None =>
                EntryState(disk, index_path_of(gobi.pdf_id)) = gobi.entry_before
    /\ (gobi.called /\ InTrace(gobi.trace, "persist") /\ gobi.env.persist # "ok") =>
          /\ index_path_of(gobi.pdf_id) \in DOMAIN disk
          /\ gobi.entry_before # "complete" =>
                EntryState(disk, index_path_of(gobi.pdf_id)) = "incomplete"
    /\ CacheHit => gobi.entry_before = "complete"

C19_Witness ==
    /\ gobi.called
    /\ gobi.entry_before = "absent"
    /\ gobi.env.persist = "persist_raises_at_once"
    /\ InTrace(gobi.trace, "persist")
    /\ gobi.returned = None
    /\ EntryState(disk, index_path_of(gobi.pdf_id)) = "incomplete"

====
